---- MODULE Spec2Model ----
(***************************************************************************)
(* JJY 40 kHz time-code transmitter sketches for the ESP32.                *)
(*                                                                         *)
(* The repository holds several near-duplicate Arduino sketches.  They are *)
(* told apart by the variable sketch:                                      *)
(*   "readme"   README.md, embedded ver.0.10 sketch (RTC only)             *)
(*   "rtc_v10"  esp32_jjy40kHz_with_rtc.ino, lines 1-368 (RTC only)        *)
(*   "rtc_v11"  esp32_jjy40kHz_with_rtc.ino, lines 369-751 (NTP + DS1302)  *)
(*   "lcd_rtc"  esp32_jjy_with_lcd_rtc.ino (NTP + DS1302 + LCD)            *)
(*   "ds3231"   unnamed/part_000 (NTP + DS3231 + LCD + periodic resync)    *)
(*   "c3"       unnamed/part_002 (ESP32-C3, NTP only, periodic resync)     *)
(*   "jjybpc"   unnamed/part_003 (JJY/BPC, timer-interrupt driven)         *)
(***************************************************************************)
EXTENDS Integers, Sequences, FiniteSets, TLC

VARIABLES
    sketch,       \* which sketch is running (fixed at power-up)
    charSigned,   \* whether plain char is signed in this build
    sg,           \* char sg[62]: the JJY symbol buffer of the sg[] sketches
    timeInfo,     \* struct tm handed to the current / last transmit pass
    se,           \* first index of the current / last transmit pass
    sh,           \* leap-second shift of the current / last transmit pass
    sent,         \* per index of the last pass: value read and waveform emitted
    bits60,       \* int8_t bits60[60]: symbol buffer of the interrupt sketch
    nowtm,        \* struct tm nowtm of the interrupt sketch
    tssec,        \* sub-second step 0..9 of the interrupt sketch
    wall,         \* local time the clock of an sg[] sketch delivers at the next read
    passes,       \* number of passes of loop() made so far
    timeBase,     \* calendar reading of time_t timeBaseSec of the interrupt sketch
    ampmod,       \* carrier envelope bit chosen by ampchange()
    oob,          \* an out-of-bounds table read has happened (undefined behaviour)
    rtcValid,     \* bool rtcValid of the interrupt sketch
    isBPC,        \* bool isBPC: the interrupt sketch transmits BPC, not JJY
    pc,           \* where the sketch is: "setup", "loop", "send", "tail"; "off" if untimed
    clk,          \* esp_timer_get_time(): microseconds since power-up
    idx,          \* int i of the transmit loop
    ntpSyncedMicros,  \* uint64_t ntpSyncedMicros: anchor, monotonic microseconds
    ntpSyncedTime,    \* time_t ntpSyncedTime: anchor, epoch second
    currentSecond,    \* time_t currentSecond as last computed from the anchor
    prevSecond,   \* currentSecond before the last 60 s advance (-1: none)
    lastSyncMillis,   \* unsigned long lastSyncMillis
    syncInterval, \* unsigned long syncInterval (milliseconds)
    rtc,          \* the RTC chip: valid flag, and the second that began at .clk
    net,          \* network: "none" (no Wi-Fi), "wifi" (Wi-Fi, no NTP answer), "ntp"
    env,          \* timing of this run: boot instant on the wall clock, overheads
    sysSet,       \* the system clock has been set by SNTP
    pass,         \* source, second and instant of the time read by the last pass
    tx,           \* the last symbol start: slot, instant, seconds, and its predecessor
    bootNtpOk,    \* NTP synchronisation in setup() succeeded
    resyncs,      \* number of successful periodic resyncs
    buzzup,       \* volatile uint32_t buzzup: steps signalled by onTimer(), not yet taken
    timerSemaphore,   \* the binary semaphore timerSemaphore has been given
    ampc,         \* int ampc: handoffs counted towards the next sub-second step
    microsBase,   \* uint64_t microsBase: monotonic microseconds of timeBaseSec
    wrap          \* the 32-bit values of the resync test, each <<high, low>> 16 bits

bufVars == <<sketch, charSigned, sg, timeInfo, se, sh, sent>>
isrVars == <<bits60, nowtm, timeBase, tssec, ampmod, oob, rtcValid, isBPC,
             buzzup, timerSemaphore, ampc, microsBase>>
envVars == <<wall, passes, wrap>>
anchorVars == <<ntpSyncedMicros, ntpSyncedTime, currentSecond, prevSecond>>
timeVars == <<pc, idx, lastSyncMillis, syncInterval, rtc, net, env, sysSet,
              pass, tx, bootNtpOk, resyncs>>
vars    == <<bufVars, isrVars, envVars, clk, anchorVars, timeVars>>

(***************************************************************************)
(* Bounds of the model.                                                    *)
(***************************************************************************)
\* Number of consecutive years, from 2024 on, of which every day is sampled.
MaxFullYears == 1

\* Last second-of-minute up to which the interrupt sketch is followed after
\* the minute rollover.
MaxIsrSec == 1

\* Number of consecutive passes of loop() that are followed.
MaxPasses == 2

(***************************************************************************)
(* The sketches.                                                           *)
(***************************************************************************)
SgSketches == {"readme", "rtc_v10", "rtc_v11", "lcd_rtc", "ds3231", "c3"}

\* printAndSendJJY / loop calls set_fix() before the field encoders.
FixInPass(s) == s \in {"rtc_v10", "rtc_v11", "lcd_rtc", "ds3231"}

\* printAndSendJJY recomputes tm_yday from tm_mon / tm_mday.
RecomputesYday(s) == s \in {"readme", "rtc_v10", "rtc_v11", "lcd_rtc", "ds3231"}

\* The switch over sg[i] has a default: zero() branch.
SwitchHasDefault(s) == s = "c3"

(***************************************************************************)
(* Calendar arithmetic.                                                    *)
(***************************************************************************)
daysInMonth == <<31, 28, 31, 30, 31, 30, 31, 31, 30, 31, 30, 31>>

IsLeapYear(year) ==
    (year % 4 = 0 /\ year % 100 # 0) \/ (year % 400 = 0)

RECURSIVE SumDays(_)
SumDays(mon) == IF mon = 0 THEN 0 ELSE daysInMonth[mon] + SumDays(mon - 1)

\* tm_yday (0-based) from tm_mon (0-based), tm_mday and the full year.
calculateDOY(year, mon, mday) ==
    (mday - 1) + SumDays(mon)
        + (IF IsLeapYear(year) /\ mon > 1 THEN 1 ELSE 0)

(***************************************************************************)
(* The time source as seen by the encoders: struct tm values.  The clock   *)
(* libraries (localtime_r, RtcDateTime) deliver a date with its weekday    *)
(* and, for localtime_r, its 0-based day of the year.                      *)
(***************************************************************************)
DaysInYear(year) == IF IsLeapYear(year) THEN 366 ELSE 365

MonthLen(year, mon) ==
    IF mon = 1 /\ IsLeapYear(year) THEN 29 ELSE daysInMonth[mon + 1]

RECURSIVE MonthOfYday(_, _, _)
MonthOfYday(year, yday, mon) ==
    IF yday < MonthLen(year, mon) THEN <<mon, yday + 1>>
    ELSE MonthOfYday(year, yday - MonthLen(year, mon), mon + 1)

RECURSIVE DaysBeforeYear(_)
DaysBeforeYear(year) ==
    IF year <= 2000 THEN 0 ELSE DaysInYear(year - 1) + DaysBeforeYear(year - 1)

\* 1 January 2000 was a Saturday.
WeekdayOf(year, yday) == (6 + DaysBeforeYear(year) + yday) % 7

TmOf(year, yday, hour, min, sec) ==
    LET md == MonthOfYday(year, yday, 0)
    IN  [tm_year |-> year - 1900, tm_mon |-> md[1], tm_mday |-> md[2],
         tm_hour |-> hour, tm_min |-> min, tm_sec |-> sec,
         tm_wday |-> WeekdayOf(year, yday), tm_yday |-> yday]

\* struct tm nowtm / a zero-initialised global struct tm.
ZeroTm ==
    [tm_year |-> 0, tm_mon |-> 0, tm_mday |-> 0, tm_hour |-> 0, tm_min |-> 0,
     tm_sec |-> 0, tm_wday |-> 0, tm_yday |-> 0]

(***************************************************************************)
(* Sampled inputs: every day of the years 2024 (leap), 2025, ... (so every *)
(* day-of-year 1..366 and every weekday), each at a time of day that runs  *)
(* through every minute 0..59 and every hour 0..23; and the first and last *)
(* day of every year 2000..2099 (every year-in-century 0..99); and the      *)
(* first day of 2101, a year the two-digit year field cannot hold.         *)
(***************************************************************************)
FullYears == 2024..(2024 + MaxFullYears - 1)

CenturyYears == 2000..2099

DateSamples ==
    {yd \in FullYears \X (0..365) : yd[2] < DaysInYear(yd[1])}
        \cup {<<y, 0>> : y \in CenturyYears}
        \cup {<<y, DaysInYear(y) - 1>> : y \in CenturyYears}
        \cup {<<2101, 0>>}

SecSamples == {0, 30, 59, 60, 61}

TmSample(ds, sec) ==
    TmOf(ds[1], ds[2], (ds[2] + ds[1]) % 24, (ds[2] + 7 * ds[1]) % 60, sec)

\* What getLocalTime() / rtc.GetDateTime() can deliver at the first pass.
TmSamples == {TmSample(ds, sec) : ds \in DateSamples, sec \in SecSamples}

\* timeBaseSec at the end of setup(): the last second of a sampled minute.
TimeBaseSamples == {TmSample(ds, 59) : ds \in DateSamples}

(***************************************************************************)
(* BCD field encoders of the sg[] sketches.                                *)
(***************************************************************************)
\* const char M = -1: -1 where char is signed, 255 where it is unsigned.
M == IF charSigned THEN -1 ELSE 255

dec2BCD_plain(decimal) == decimal

RECURSIVE dec2BCD(_)
dec2BCD(decimal) ==
    IF decimal > 0
    THEN (decimal % 10) + 16 * dec2BCD(decimal \div 10)
    ELSE 0

RECURSIVE Pow2(_)
Pow2(k) == IF k = 0 THEN 1 ELSE 2 * Pow2(k - 1)

\* (m >> k) % 2 for m >= 0.
Bit(m, k) == (m \div Pow2(k)) % 2

\* a ^ b on single bits.
Xor(a, b) == IF a = b THEN 0 ELSE 1

set_year(s, n) ==
    LET m == dec2BCD(n)
    IN  [s EXCEPT ![48] = Bit(m, 0), ![47] = Bit(m, 1), ![46] = Bit(m, 2),
                  ![45] = Bit(m, 3), ![44] = Bit(m, 4), ![43] = Bit(m, 5),
                  ![42] = Bit(m, 6), ![41] = Bit(m, 7)]

set_day_shift(s, n) ==
    LET m == dec2BCD(n)
    IN  [s EXCEPT ![33] = Bit(m, 0), ![32] = Bit(m, 1), ![31] = Bit(m, 2),
                  ![30] = Bit(m, 3), ![28] = Bit(m, 4), ![27] = Bit(m, 5),
                  ![26] = Bit(m, 6), ![25] = Bit(m, 7), ![24] = Bit(m, 8),
                  ![23] = Bit(m, 9)]

set_day(s, n) ==
    LET m == dec2BCD(n)
    IN  [s EXCEPT ![33] = Bit(m, 0), ![32] = Bit(m, 1), ![31] = Bit(m, 2),
                  ![30] = Bit(m, 3), ![28] = Bit(m, 4), ![27] = Bit(m, 5),
                  ![26] = Bit(m, 6), ![25] = Bit(m, 7), ![23] = Bit(m, 8),
                  ![22] = Bit(m, 9)]

set_wday(s, m) ==
    [s EXCEPT ![52] = Bit(m, 0), ![51] = Bit(m, 1), ![50] = Bit(m, 2)]

set_hour_drop(s, n) ==
    LET m == dec2BCD(n)
        t == [s EXCEPT ![18] = Bit(m, 0), ![17] = Bit(m, 1), ![16] = Bit(m, 2),
                       ![15] = Bit(m, 3), ![13] = Bit(m, 4), ![12] = Bit(m, 5)]
    IN  [t EXCEPT ![36] = Xor(Xor(Xor(Xor(t[18], t[17]), t[16]), t[15]), t[13])]

set_hour(s, n) ==
    LET m == dec2BCD(n)
        t == [s EXCEPT ![18] = Bit(m, 0), ![17] = Bit(m, 1), ![16] = Bit(m, 2),
                       ![15] = Bit(m, 3), ![13] = Bit(m, 4), ![12] = Bit(m, 5)]
        PA1 == Xor(Xor(Xor(Xor(Xor(t[18], t[17]), t[16]), t[15]), t[13]), t[12])
    IN  [t EXCEPT ![36] = PA1]

set_min(s, n) ==
    LET m == dec2BCD(n)
        t == [s EXCEPT ![8] = Bit(m, 0), ![7] = Bit(m, 1), ![6] = Bit(m, 2),
                       ![5] = Bit(m, 3), ![3] = Bit(m, 4), ![2] = Bit(m, 5),
                       ![1] = Bit(m, 6)]
        PA2 == Xor(Xor(Xor(Xor(Xor(Xor(t[8], t[7]), t[6]), t[5]), t[3]), t[2]), t[1])
    IN  [t EXCEPT ![37] = PA2]

MarkSlots == {0, 9, 19, 29, 39, 49, 59}
ZeroSlots == {4, 10, 11, 14, 20, 21, 24, 34, 35, 55, 56, 57, 58, 38, 40, 53, 54}

set_fix(s) ==
    [k \in 0..61 |-> IF k \in MarkSlots THEN M
                     ELSE IF k \in ZeroSlots THEN 0 ELSE s[k]]

(***************************************************************************)
(* printAndSendJJY: leap-second handling, build, transmit loop.            *)
(***************************************************************************)
\* int se = timeInfo.tm_sec, sh = 0; if (se == 60) ... else if (se == 61) ...
LeapSe(sec) == IF sec = 60 THEN 59 ELSE IF sec = 61 THEN 58 ELSE sec

LeapSh_none(sec) == 0

LeapSh(sec) == IF sec = 60 THEN 1 ELSE IF sec = 61 THEN 2 ELSE 0

LeapFlags(s, sec) ==
    IF sec = 60 THEN [s EXCEPT ![53] = 1, ![54] = 0]
    ELSE IF sec = 61 THEN [s EXCEPT ![53] = 1, ![54] = 1]
    ELSE s

\* timeInfo.tm_yday at the call set_day(timeInfo.tm_yday + 1).
YdayUsed(tm, sk) ==
    IF RecomputesYday(sk)
    THEN calculateDOY(tm.tm_year + 1900, tm.tm_mon, tm.tm_mday)
    ELSE tm.tm_yday

\* The buffer after the leap-second block and the encoders, before the loop.
BuildSg(s, tm, sk) ==
    LET year == tm.tm_year + 1900
        yday == YdayUsed(tm, sk)
        s0 == LeapFlags(s, tm.tm_sec)
        s1 == IF FixInPass(sk) THEN set_fix(s0) ELSE s0
    IN  set_year(set_wday(set_day(set_hour(set_min(s1, tm.tm_min), tm.tm_hour),
                                  yday + 1), tm.tm_wday), year - 2000)

\* for (int i = se; i < 60 + sh && i < 62; ++i)
PassIndices(sec) ==
    {k \in LeapSe(sec)..(LeapSe(sec) + 62) : k < 60 + LeapSh(sec) /\ k < 62}

\* if (sg[i] != -1 && sg[i] != 0 && sg[i] != 1 && sg[i] != 255) sg[i] = 0;
Coerce(v) == IF v # -1 /\ v # 0 /\ v # 1 /\ v # 255 THEN 0 ELSE v

\* (carrier-on ms, carrier-off ms) of mark(), zero(), one().
mark == <<200, 800>>
zero == <<800, 200>>
one  == <<500, 500>>
NoWave == <<0, 0>>

\* switch (sg[i]) { case -1: case 255: mark(); case 0: zero(); case 1: one(); }
SwitchWave(v, sk) ==
    IF v = -1 \/ v = 255 THEN mark
    ELSE IF v = 0 THEN zero
    ELSE IF v = 1 THEN one
    ELSE IF SwitchHasDefault(sk) THEN zero ELSE NoWave

\* One iteration of the transmit loop on slot k of buffer s.
SendOne(s, k, sk) ==
    [raw |-> s[k], val |-> Coerce(s[k]), wave |-> SwitchWave(Coerce(s[k]), sk)]

\* The transmit loop of printAndSendJJY on the buffer buf.
TransmitLoop(buf, tm) ==
    \E built \in {buf}, ix \in {PassIndices(tm.tm_sec)} :
        /\ timeInfo' = tm
        /\ se' = LeapSe(tm.tm_sec)
        /\ sh' = LeapSh(tm.tm_sec)
        /\ sent' = [k \in ix |-> SendOne(built, k, sketch)]
        /\ sg' = [k \in 0..61 |-> IF k \in ix THEN Coerce(built[k]) ELSE built[k]]
        /\ UNCHANGED <<sketch, charSigned>>

\* A whole call of printAndSendJJY(tm) (in "readme" and "rtc_v10": the body
\* of loop() from the leap-second block on).
printAndSendJJY(tm) == TransmitLoop(BuildSg(sg, tm, sketch), tm)

(***************************************************************************)
(* The interrupt-driven JJY/BPC sketch: tables, encoders, ampchange.       *)
(***************************************************************************)
SP_0 == 0
SP_1 == 1
SP_M == 2

SP_2 == 2
SP_3 == 3
SP_M4 == 4

bits_jjy == [k \in 0..59 |-> IF k % 10 = 9 \/ k = 0 THEN SP_M ELSE SP_0]

bits_bpc ==
    [k \in 0..59 |-> IF k \in {0, 20, 40} THEN SP_M4
                     ELSE IF k = 21 THEN SP_1
                     ELSE IF k = 41 THEN SP_2 ELSE SP_0]

sp_jjy_long ==
    [k \in 0..29 |->
        IF k < 10 THEN (IF k < 8 THEN 1 ELSE 0)
        ELSE IF k < 20 THEN (IF k < 15 THEN 1 ELSE 0)
        ELSE (IF k < 23 THEN 1 ELSE 0)]

\* int8_t sp_jjy[]: three rows of ten 100 ms steps, indexed from 0.
sp_jjy ==
    [k \in 0..29 |->
        IF k < 10 THEN (IF k < 8 THEN 1 ELSE 0)
        ELSE IF k < 20 THEN (IF k < 15 THEN 1 ELSE 0)
        ELSE (IF k < 22 THEN 1 ELSE 0)]

\* int8_t sp_bpc[]: five rows of ten 100 ms steps; row k < 4 is k + 1 steps
\* off, then on; row 4 (SP_M4) is off throughout.
sp_bpc ==
    [k \in 0..49 |->
        IF k \div 10 = SP_M4 THEN 0
        ELSE IF k % 10 > k \div 10 THEN 1 ELSE 0]

\* secpattern = st_sp[station]
secpattern == IF isBPC THEN sp_bpc ELSE sp_jjy

\* for (i = pos + len - 1; i >= pos; i--) { bits60[i] = value & 1; value >>= 1; }
binarize(b, value, pos, len) ==
    [k \in 0..59 |-> IF k \in pos..(pos + len - 1)
                     THEN Bit(value, pos + len - 1 - k) ELSE b[k]]

RECURSIVE SumBits(_, _, _)
SumBits(b, pos, len) ==
    IF len = 0 THEN 0 ELSE b[pos] + SumBits(b, pos + 1, len - 1)

parity(b, pos, len) == SumBits(b, pos, len) % 2

mb_jjy(b, tm) ==
    LET b1 == binarize(b,  tm.tm_min \div 10, 1, 3)
        b2 == binarize(b1, tm.tm_min % 10, 5, 4)
        b3 == binarize(b2, tm.tm_hour \div 10, 12, 2)
        b4 == binarize(b3, tm.tm_hour % 10, 15, 4)
        b5 == binarize(b4, tm.tm_yday \div 100, 22, 2)
        b6 == binarize(b5, (tm.tm_yday % 100) \div 10, 25, 4)
        b7 == binarize(b6, tm.tm_yday % 10, 30, 4)
        b8 == [b7 EXCEPT ![36] = parity(b7, 12, 7)]
        b9 == [b8 EXCEPT ![37] = parity(b8, 1, 8)]
        y  == tm.tm_year - 100
        b10 == binarize(b9, y \div 10, 41, 4)
        b11 == binarize(b10, y % 10, 45, 4)
    IN  binarize(b11, tm.tm_wday, 50, 3)

Quad_wide(value, k) == (value \div Pow2(2 * k)) % 8

\* value & 3 after k shifts by two bits.
Quad(value, k) == (value \div Pow2(2 * k)) % 4

\* for (i = pos + len - 1; i >= pos; i--) { bits60[i] = value & 3; value >>= 2; }
quadize(b, value, pos, len) ==
    [k \in 0..59 |-> IF k \in pos..(pos + len - 1)
                     THEN Quad(value, pos + len - 1 - k) ELSE b[k]]

RECURSIVE SumQuadBits(_, _, _)
SumQuadBits(b, pos, len) ==
    IF len = 0 THEN 0
    ELSE (b[pos] % 2) + ((b[pos] \div 2) % 2) + SumQuadBits(b, pos + 1, len - 1)

qparity_low(b, pos, len) == SumBits(b, pos, len) % 2

qparity(b, pos, len) == SumQuadBits(b, pos, len) % 2

mb_bpc_onecopy(b, tm) ==
    LET b1 == quadize(b, tm.tm_hour % 12, 3, 2)
        b2 == quadize(b1, tm.tm_min, 5, 3)
        b3 == quadize(b2, tm.tm_wday, 8, 2)
        b4 == [b3 EXCEPT ![10] = (IF tm.tm_hour >= 12 THEN 2 ELSE 0) + qparity(b3, 3, 7)]
        b5 == quadize(b4, tm.tm_mday, 11, 3)
        b6 == quadize(b5, tm.tm_mon + 1, 14, 2)
        b7 == quadize(b6, tm.tm_year % 100, 16, 3)
        b8 == [b7 EXCEPT ![19] = qparity(b7, 11, 8)]
    IN  [k \in 0..59 |-> IF k \in 22..39 THEN b8[k - 20] ELSE b8[k]]

mb_bpc(b, tm) ==
    LET b1 == quadize(b, tm.tm_hour % 12, 3, 2)
        b2 == quadize(b1, tm.tm_min, 5, 3)
        b3 == quadize(b2, tm.tm_wday, 8, 2)
        b4 == [b3 EXCEPT ![10] = (IF tm.tm_hour >= 12 THEN 2 ELSE 0) + qparity(b3, 3, 7)]
        b5 == quadize(b4, tm.tm_mday, 11, 3)
        b6 == quadize(b5, tm.tm_mon + 1, 14, 2)
        b7 == quadize(b6, tm.tm_year % 100, 16, 3)
        b8 == [b7 EXCEPT ![19] = qparity(b7, 11, 8)]
    IN  [k \in 0..59 |-> IF k \in 22..39 THEN b8[k - 20]
                         ELSE IF k \in 42..59 THEN b8[k - 40] ELSE b8[k]]

\* makebitpattern = st_makebits[station]
makebitpattern(b, tm) == IF isBPC THEN mb_bpc(b, tm) ELSE mb_jjy(b, tm)

\* ampchange(): the envelope bit for sub-second step ts of the current second.
\* A row index outside sp_jjy makes the read undefined: any value comes back.
ampchange(b, tm, ts) ==
    IF tm.tm_sec < 0 \/ tm.tm_sec >= 60
    THEN UNCHANGED <<ampmod, oob>>
    ELSE LET symbol == b[tm.tm_sec]
             at == symbol * 10 + ts
         IN  IF at \in DOMAIN secpattern
             THEN ampmod' = secpattern[at] /\ oob' = oob
             ELSE ampmod' \in {0, 1} /\ oob' = TRUE

\* The calendar reading of second 0 of the minute after that of tm.
NextMinuteTm(tm) ==
    LET year == tm.tm_year + 1900
        min  == (tm.tm_min + 1) % 60
        ch   == IF min = 0 THEN 1 ELSE 0
        hour == (tm.tm_hour + ch) % 24
        cd   == IF ch = 1 /\ hour = 0 THEN 1 ELSE 0
        yd   == tm.tm_yday + cd
        cy   == IF yd >= DaysInYear(year) THEN 1 ELSE 0
    IN  TmOf(year + cy, IF cy = 1 THEN 0 ELSE yd, hour, min, 0)

\* localtime_r(&timeBaseSec, &nowtm) after timeBaseSec += 1.
NextSecondTm(tm) ==
    IF tm.tm_sec + 1 < 60 THEN [tm EXCEPT !.tm_sec = @ + 1] ELSE NextMinuteTm(tm)

(***************************************************************************)
(* Power-up state: setup() has run.                                        *)
(***************************************************************************)
\* The resync test at rest: unsigned long lastSyncMillis = 0, no time elapsed.
NoWrap == [millis |-> <<0, 0>>, lastSyncMillis |-> <<0, 0>>, elapsed |-> <<0, 0>>,
           due |-> FALSE]

InitBuffers ==
    /\ sg = set_fix([k \in 0..61 |-> 0])
    /\ timeInfo = ZeroTm
    /\ se = 0
    /\ sh = 0
    /\ sent = [k \in {} |-> 0]
    /\ passes = 0
    /\ wrap = NoWrap
    /\ bits60 = bits_jjy
    /\ nowtm = ZeroTm
    /\ tssec = 0
    /\ ampmod = 0
    /\ oob = FALSE
    /\ rtcValid = TRUE
    /\ isBPC = FALSE
    /\ buzzup = 0
    /\ timerSemaphore = FALSE
    /\ ampc = 0
    /\ microsBase = 0

\* The variables of the timed model, at rest in the untimed specifications.
NoPass == [src |-> "none", sec |-> 0, clk |-> 0, rtcSec |-> 0, tag |-> "none"]
NoTx == [n |-> 0, slot |-> 0, at |-> 0, ref |-> 0, enc |-> 0, src |-> "none",
         prevRef |-> 0, prevSrc |-> "none"]
NoRtc == [valid |-> FALSE, sec |-> 0, clk |-> 0]
NoEnv == [bootSec |-> 0, bootPhase |-> 0, lead |-> 0, symOverhead |-> 0,
          pollLag |-> 0, ntpTimeout |-> 0, setupTail |-> 0, tzHours |-> 0]

InitAnchorIdle ==
    /\ ntpSyncedMicros = 0
    /\ ntpSyncedTime = 0
    /\ currentSecond = 0
    /\ prevSecond = -1

InitTimeIdle ==
    /\ pc = "off"
    /\ idx = 0
    /\ lastSyncMillis = 0
    /\ syncInterval = 0
    /\ rtc = NoRtc
    /\ net = "none"
    /\ env = NoEnv
    /\ sysSet = FALSE
    /\ pass = NoPass
    /\ tx = NoTx
    /\ bootNtpOk = FALSE
    /\ resyncs = 0

Init ==
    /\ clk = 0
    /\ InitAnchorIdle
    /\ InitTimeIdle
    /\ sketch \in SgSketches \cup {"jjybpc"}
    /\ charSigned \in (IF sketch = "jjybpc" THEN {FALSE} ELSE BOOLEAN)
    /\ wall \in (IF sketch = "jjybpc" THEN {ZeroTm} ELSE TmSamples)
    /\ timeBase \in (IF sketch = "jjybpc" THEN TimeBaseSamples ELSE {ZeroTm})
    /\ InitBuffers

(***************************************************************************)
(* Actions.                                                                *)
(***************************************************************************)
\* One pass of an sg[] sketch on a time delivered by its time source.
Pass ==
    /\ sketch \in SgSketches
    /\ passes < MaxPasses
    /\ printAndSendJJY(wall)
    /\ wall' = NextMinuteTm(wall)
    /\ wrap' = wrap
    /\ passes' = passes + 1
    /\ UNCHANGED <<isrVars, clk, anchorVars, timeVars>>

\* loop() of the interrupt sketch, at the iteration in which ampc wraps,
\* on the buffer b: the sub-second step advances, on its wrap a second may
\* have elapsed (elapsedMicros >= 1000000), and ampchange() is applied.
LoopStep(b) ==
    /\ sketch = "jjybpc"
    /\ pc # "isr_setup"
    /\ rtcValid
    /\ timeBase.tm_sec = 59 \/ timeBase.tm_sec < MaxIsrSec
    /\ tssec' = (tssec + 1) % 10
    /\ IF tssec' = 0
       THEN \E elapsed \in BOOLEAN :
               IF elapsed
               THEN \E t \in {NextSecondTm(timeBase)} :
                      \E n \in {[t EXCEPT !.tm_yday =
                                   calculateDOY(t.tm_year + 1900, t.tm_mon, t.tm_mday)]} :
                        /\ timeBase' = t
                        /\ nowtm' = n
                        /\ bits60' = IF n.tm_sec = 0 THEN makebitpattern(b, n) ELSE b
               ELSE bits60' = b /\ UNCHANGED <<timeBase, nowtm>>
       ELSE bits60' = b /\ UNCHANGED <<timeBase, nowtm>>
    /\ ampchange(bits60', nowtm', tssec')
    /\ UNCHANGED <<rtcValid, isBPC, buzzup, timerSemaphore, ampc, microsBase,
                   bufVars, envVars, clk, anchorVars, timeVars>>

IsrTick == LoopStep(bits60)

Next == Pass \/ IsrTick

Spec == Init /\ [][Next]_vars

(***************************************************************************)
(* Fault injection: a slot of the buffer is overwritten with a foreign     *)
(* value (a stray write) before the transmit step reads it.                *)
(***************************************************************************)
FaultSlots == {0, 4, 36, 60, 61}
FaultValues == {2, 3, 100}

FaultTimes ==
    {TmSample(ds, sec) : ds \in {<<2024, 59>>, <<2025, 364>>},
                         sec \in {0, 59, 60, 61}}

Inject(buf, k, v) == [j \in DOMAIN buf |-> IF j = k THEN v ELSE buf[j]]

InitFault ==
    /\ clk = 0
    /\ InitAnchorIdle
    /\ InitTimeIdle
    /\ sketch \in SgSketches \cup {"jjybpc"}
    /\ charSigned \in (IF sketch = "jjybpc" THEN {FALSE} ELSE BOOLEAN)
    /\ wall \in (IF sketch = "jjybpc" THEN {ZeroTm} ELSE FaultTimes)
    /\ timeBase \in (IF sketch = "jjybpc"
                      THEN {tm \in FaultTimes : tm.tm_sec = 59} ELSE {ZeroTm})
    /\ InitBuffers

\* A pass in which a slot is overwritten between the build and the loop.
PassFault ==
    /\ sketch \in SgSketches
    /\ passes < MaxPasses
    /\ \E k \in FaultSlots, v \in FaultValues :
          TransmitLoop(Inject(BuildSg(sg, wall, sketch), k, v), wall)
    /\ wall' = NextMinuteTm(wall)
    /\ wrap' = wrap
    /\ passes' = passes + 1
    /\ UNCHANGED <<isrVars, clk, anchorVars, timeVars>>

\* A step of the interrupt sketch on a buffer with an overwritten slot.
IsrTickFault ==
    \E k \in FaultSlots \cap DOMAIN bits60, v \in FaultValues :
        LoopStep(Inject(bits60, k, v))

NextFault == Pass \/ IsrTick \/ PassFault \/ IsrTickFault

SpecFault == InitFault /\ [][NextFault]_vars

(***************************************************************************)
(* The NTP anchor: the current second is computed from the monotonic       *)
(* microsecond timer and the pair (ntpSyncedMicros, ntpSyncedTime).        *)
(***************************************************************************)
MicrosPerSec == 1000000
AlignWindow == 1000
PollStep == 100
SecPerMin == 60

MaxAnchorMinutes == 30

\* The sketches whose loop() has the anchored branch.
HasNtpMode(sk) == sk \in {"rtc_v11", "lcd_rtc", "ds3231", "c3"}

CurrentSecond_round(t, a, m) == t + ((m - a + (MicrosPerSec \div 2)) \div MicrosPerSec)

CurrentSecond_ceil(t, a, m) == t + ((m - a + (MicrosPerSec - 1)) \div MicrosPerSec)

\* time_t currentSecond = ntpSyncedTime + ((nowMicros - ntpSyncedMicros) / 1000000ULL);
CurrentSecond(t, a, m) == t + ((m - a) \div MicrosPerSec)

\* while (true) { if ((nowMicros - ntpSyncedMicros) % 1000000UL < 1000) break;
\*                delayMicroseconds(100); }
\* The timer reading at which the loop breaks when entered at reading m: the
\* first of m, m + 100, m + 200, ... whose offset is inside the window.
AlignedAt(a, m) ==
    LET o == (m - a) % MicrosPerSec
    IN  IF o < AlignWindow THEN m
        ELSE m + PollStep * ((MicrosPerSec - o + PollStep - 1) \div PollStep)

AnchorMicros == {1, 1500, 2750400}
AnchorTimes == {0, 1735689599}
AnchorElapsed == {0, 1, 999, 1000, 999999, 1000000, 61234567}

InitAnchor ==
    /\ sketch \in {sk \in SgSketches : HasNtpMode(sk)}
    /\ charSigned = FALSE
    /\ wall = ZeroTm
    /\ timeBase = ZeroTm
    /\ InitBuffers
    /\ InitTimeIdle
    /\ ntpSyncedMicros \in AnchorMicros
    /\ ntpSyncedTime \in AnchorTimes
    /\ clk \in {ntpSyncedMicros + d : d \in AnchorElapsed}
    /\ currentSecond = CurrentSecond(ntpSyncedTime, ntpSyncedMicros, clk)
    /\ prevSecond = -1

\* The timer advances by exactly one minute and the second is computed anew.
Advance60 ==
    /\ pc = "off"
    /\ ntpSyncedMicros > 0
    /\ clk + SecPerMin * MicrosPerSec
          <= ntpSyncedMicros + MaxAnchorMinutes * SecPerMin * MicrosPerSec
    /\ clk' = clk + SecPerMin * MicrosPerSec
    /\ prevSecond' = currentSecond
    /\ currentSecond' = CurrentSecond(ntpSyncedTime, ntpSyncedMicros, clk')
    /\ UNCHANGED <<ntpSyncedMicros, ntpSyncedTime, bufVars, isrVars, envVars, timeVars>>

\* The alignment loop runs until it breaks and the second is computed anew.
Align ==
    /\ pc = "off"
    /\ ntpSyncedMicros > 0
    /\ AlignedAt(ntpSyncedMicros, clk) # clk
    /\ clk' = AlignedAt(ntpSyncedMicros, clk)
    /\ prevSecond' = -1
    /\ currentSecond' = CurrentSecond(ntpSyncedTime, ntpSyncedMicros, clk')
    /\ UNCHANGED <<ntpSyncedMicros, ntpSyncedTime, bufVars, isrVars, envVars, timeVars>>

NextAnchor == Advance60 \/ Align

SpecAnchor == InitAnchor /\ [][NextAnchor]_vars

(***************************************************************************)
(* The alignment wait of loop(), one iteration of its while loop per step. *)
(* env.pollLag is the time an iteration takes besides delayMicroseconds(). *)
(***************************************************************************)
InitAlign ==
    /\ sketch \in {sk \in SgSketches : HasNtpMode(sk)}
    /\ charSigned = FALSE
    /\ wall = ZeroTm
    /\ timeBase = ZeroTm
    /\ InitBuffers
    /\ ntpSyncedMicros \in {1500, 2750400}
    /\ ntpSyncedTime = 1735689599
    /\ clk \in {ntpSyncedMicros + d : d \in {0, 999, 1000, 1001, 500000, 999950}}
    /\ currentSecond = CurrentSecond(ntpSyncedTime, ntpSyncedMicros, clk)
    /\ prevSecond = -1
    /\ pc = "align"
    /\ idx = 0
    /\ lastSyncMillis = 0
    /\ syncInterval = 0
    /\ rtc = NoRtc
    /\ net = "none"
    /\ env \in {[NoEnv EXCEPT !.pollLag = ov] : ov \in {0, 3, 30}}
    /\ sysSet = FALSE
    /\ pass = NoPass
    /\ tx = NoTx
    /\ bootNtpOk = FALSE
    /\ resyncs = 0

AlignPoll_coarse ==
    /\ pc = "align"
    /\ IF (clk - ntpSyncedMicros) % MicrosPerSec < AlignWindow
       THEN pc' = "aligned" /\ clk' = clk
       ELSE pc' = "align" /\ clk' = clk + 15 * PollStep + env.pollLag
    /\ UNCHANGED <<bufVars, isrVars, envVars, anchorVars, idx, lastSyncMillis,
                   syncInterval, rtc, net, env, sysSet, pass, tx, bootNtpOk,
                   resyncs>>

\* nowMicros = esp_timer_get_time();
\* if ((nowMicros - ntpSyncedMicros) % 1000000UL < 1000) break;
\* delayMicroseconds(100);
AlignPoll ==
    /\ pc = "align"
    /\ IF (clk - ntpSyncedMicros) % MicrosPerSec < AlignWindow
       THEN pc' = "aligned" /\ clk' = clk
       ELSE pc' = "align" /\ clk' = clk + PollStep + env.pollLag
    /\ UNCHANGED <<bufVars, isrVars, envVars, anchorVars, idx, lastSyncMillis,
                   syncInterval, rtc, net, env, sysSet, pass, tx, bootNtpOk,
                   resyncs>>

\* The loop task runs the while loop without blocking: every iteration that
\* can be made is made.
SpecAlign == InitAlign /\ [][AlignPoll]_vars /\ WF_vars(AlignPoll)

(***************************************************************************)
(* The sketches in time.  clk is the microsecond timer; the wall clock,    *)
(* the SNTP-set system clock and the timer run at the same rate, and a     *)
(* delay lasts exactly as long as asked.  Seconds are counted from         *)
(* 2024-12-31 23:58:00 local time.                                         *)
(***************************************************************************)
TailDelay == 5000
InvalidRtcDelay == 1000000
RetryDelay == 2000000
NtpAttempts == 3
MillisPerHour == 3600000
DefaultSyncHours == 6

MaxSeconds == 150

HasRtc(sk) == sk # "c3"
HasResync(sk) == sk \in {"ds3231", "c3"}
WaitsTick(sk) == sk \in {"rtc_v11", "lcd_rtc", "ds3231"}
MinuteAligns(sk) == sk \in {"lcd_rtc", "ds3231", "c3"}
HasTailDelay(sk) == sk # "c3"

NtpMode_always(sk, a) == HasNtpMode(sk)

NtpMode_sticky(sk, a) == HasNtpMode(sk) /\ (a > 0 \/ bootNtpOk)

\* if (ntpSyncedMicros > 0) { ... } else { ... }   (c3: if (!ntpSynced) return;)
NtpMode(sk, a) == HasNtpMode(sk) /\ a > 0

\* localtime_r / RtcDateTime: the calendar reading of second n.
TmAt(n) ==
    LET mt == 58 + (n \div SecPerMin)
        ht == 23 + (mt \div 60)
        dd == ht \div 24
    IN  IF dd = 0 THEN TmOf(2024, 365, ht % 24, mt % 60, n % SecPerMin)
        ELSE TmOf(2025, dd - 1, ht % 24, mt % 60, n % SecPerMin)

\* The wall-clock second at timer reading m; after SNTP has set the system
\* clock, time(nullptr) returns it.
TrueSec(m) == env.bootSec + ((m + env.bootPhase) \div MicrosPerSec)

\* while (time(nullptr) == rawtime) delay(1);  the reading at which it ends.
NextTick(m) ==
    m + (MicrosPerSec - ((m + env.bootPhase) % MicrosPerSec)) + env.pollLag

\* gettimeofday() in microseconds: the wall clock once set by SNTP, else the
\* time since power-up.
SysMicros(m, set) ==
    IF set THEN env.bootSec * MicrosPerSec + env.bootPhase + m ELSE m

\* delayUntilAlignedRTCWrite(): the reading at which it returns.
NextMinute(m, set) ==
    m + ((SysMicros(m, set) \div (SecPerMin * MicrosPerSec)) + 1)
            * (SecPerMin * MicrosPerSec) - SysMicros(m, set)

\* rtc.GetDateTime(): the second the chip shows at reading m.
RtcSec(m) == rtc.sec + ((m - rtc.clk) \div MicrosPerSec)

\* The readings at which the chip's second changes after m.
NextRtcTick(m) == m + (MicrosPerSec - ((m - rtc.clk) % MicrosPerSec))

\* millis()
Millis(m) == m \div 1000

TimedEnvs ==
    [bootSec : {20, 56}, bootPhase : {0, 400000}, lead : {3000000},
     symOverhead : {0, 330}, pollLag : {0, 700}, ntpTimeout : {5000000},
     setupTail : {0, 2000}, tzHours : {9}]

InitTime ==
    /\ sketch \in SgSketches
    /\ charSigned = FALSE
    /\ wall = ZeroTm
    /\ timeBase = ZeroTm
    /\ InitBuffers
    /\ InitAnchorIdle
    /\ clk = 0
    /\ pc = "setup"
    /\ idx = 0
    /\ lastSyncMillis = 0
    /\ syncInterval = DefaultSyncHours * MillisPerHour
    /\ env \in TimedEnvs
    /\ net \in {"none", "wifi", "ntp"}
    /\ rtc \in (IF HasRtc(sketch)
                THEN {[valid |-> v, sec |-> env.bootSec - 7, clk |-> 0 - 250000] :
                        v \in BOOLEAN}
                ELSE {NoRtc})
    /\ sysSet = FALSE
    /\ pass = NoPass
    /\ tx = NoTx
    /\ bootNtpOk = FALSE
    /\ resyncs = 0

C3Retries == 10
RetryPause == 10000
SyncHourInputs == {0, 6}

\* syncInterval after the portal's "sync" field hr has been read with atoi.
SyncIntervalOf(sk, hr, cur) ==
    IF sk = "c3"
    THEN (IF hr >= 1 /\ hr <= 24 THEN hr * MillisPerHour ELSE cur)
    ELSE hr * MillisPerHour

\* setup() of the sketches with an RTC, NTP answering: second-boundary wait,
\* anchor, minute wait, RTC written with the timeInfo read before the wait.
SetupNtpOk(t0) ==
    \E t1 \in {IF WaitsTick(sketch) THEN NextTick(t0) ELSE t0} :
    \E t2 \in {IF MinuteAligns(sketch) THEN NextMinute(t1, TRUE) ELSE t1} :
        /\ IF HasNtpMode(sketch)
           THEN ntpSyncedMicros' = t1 /\ ntpSyncedTime' = TrueSec(t1)
           ELSE UNCHANGED <<ntpSyncedMicros, ntpSyncedTime>>
        /\ rtc' = [valid |-> TRUE, sec |-> TrueSec(t1), clk |-> t2]
        /\ clk' = t2 + env.setupTail
        /\ sysSet' = TRUE
        /\ bootNtpOk' = TRUE

\* setup() of the sketches with an RTC, NTP failing: three attempts when
\* Wi-Fi is connected, none otherwise; the RTC keeps its own time.
SetupNtpFail(t0) ==
    /\ clk' = t0 + env.setupTail
                 + (IF net = "wifi" THEN NtpAttempts * (env.ntpTimeout + RetryDelay)
                    ELSE 0)
    /\ UNCHANGED <<ntpSyncedMicros, ntpSyncedTime, rtc, sysSet, bootNtpOk>>

\* setup() of the ESP32-C3 sketch: returns at once without Wi-Fi; otherwise
\* anchors without a boundary wait and waits for the minute in either case.
SetupC3(t0) ==
    /\ rtc' = rtc
    /\ IF net = "none"
       THEN /\ clk' = t0
            /\ UNCHANGED <<ntpSyncedMicros, ntpSyncedTime, sysSet, bootNtpOk,
                           lastSyncMillis, syncInterval>>
       ELSE /\ \E hr \in SyncHourInputs :
                  syncInterval' = SyncIntervalOf(sketch, hr, syncInterval)
            /\ IF net = "ntp"
               THEN /\ ntpSyncedTime' = TrueSec(t0)
                    /\ ntpSyncedMicros' = t0
                    /\ lastSyncMillis' = Millis(t0)
                    /\ sysSet' = TRUE
                    /\ bootNtpOk' = TRUE
                    /\ clk' = NextMinute(t0, TRUE)
               ELSE /\ clk' = NextMinute(t0 + (C3Retries + 1) * env.ntpTimeout
                                            + C3Retries * RetryPause, FALSE)
                    /\ UNCHANGED <<ntpSyncedMicros, ntpSyncedTime, sysSet,
                                   bootNtpOk, lastSyncMillis>>

\* setup()
Setup ==
    /\ pc = "setup"
    /\ \E t0 \in {clk + env.lead} :
          IF sketch = "c3" THEN SetupC3(t0)
          ELSE /\ IF net = "ntp" THEN SetupNtpOk(t0) ELSE SetupNtpFail(t0)
               /\ IF sketch = "ds3231"
                  THEN /\ \E hr \in (IF net = "none" THEN {DefaultSyncHours}
                                     ELSE SyncHourInputs) :
                            syncInterval' = SyncIntervalOf(sketch, hr, syncInterval)
                       /\ lastSyncMillis' = Millis(clk')
                  ELSE UNCHANGED <<lastSyncMillis, syncInterval>>
    /\ sg' = set_fix(sg)
    /\ pc' = "loop"
    /\ UNCHANGED <<sketch, charSigned, timeInfo, se, sh, sent, isrVars, envVars,
                   currentSecond, prevSecond, idx, net, env, pass, tx, resyncs>>

\* loop() returns without transmitting after a delay of d microseconds.
SkipPass_short(d) ==
    /\ clk' = clk + (d \div 2)
    /\ pc' = "loop"
    /\ UNCHANGED <<bufVars, passes, idx, pass, currentSecond>>

SkipPass(d) ==
    /\ clk' = clk + d
    /\ pc' = "loop"
    /\ UNCHANGED <<bufVars, passes, idx, pass, currentSecond>>

\* loop() has taken second s from source src at reading t: the buffer is
\* built for it and the transmit loop is entered with i = se.
StartPass(src, s, t) ==
    \E tm \in {TmAt(s)} :
    \E built \in {BuildSg(sg, tm, sketch)} :
        /\ sg' = built
        /\ timeInfo' = tm
        /\ se' = LeapSe(tm.tm_sec)
        /\ sh' = LeapSh(tm.tm_sec)
        /\ idx' = LeapSe(tm.tm_sec)
        /\ sent' = [k \in {} |-> 0]
        /\ pass' = [src |-> src, sec |-> s, clk |-> t,
                    rtcSec |-> IF rtc.valid THEN RtcSec(t) ELSE 0 - 1,
                    tag |-> IF sketch \in {"lcd_rtc", "ds3231"}
                            THEN (IF ntpSyncedMicros > 0 THEN "NTP" ELSE "RTC")
                            ELSE "none"]
        /\ currentSecond' = IF src = "NTP" THEN s ELSE currentSecond
        /\ clk' = t
        /\ passes' = passes + 1
        /\ pc' = "send"
        /\ UNCHANGED <<sketch, charSigned>>

\* while (true) { curr = rtc.GetDateTime();
\*   if (curr.Second() != prev.Second() && curr.Second() != 0) break; delay(1); }
RtcTickNotZero(m) ==
    LET t1 == NextRtcTick(m) + env.pollLag
    IN  IF RtcSec(t1) % SecPerMin = 0 THEN t1 + MicrosPerSec ELSE t1

\* loop() up to the transmit loop.
LoopTop ==
    /\ pc = "loop"
    /\ clk < MaxSeconds * MicrosPerSec
    /\ IF sketch = "c3" /\ ~NtpMode(sketch, ntpSyncedMicros)
       THEN SkipPass(InvalidRtcDelay)
       ELSE IF NtpMode(sketch, ntpSyncedMicros)
       THEN \E t \in {AlignedAt(ntpSyncedMicros, clk)} :
               StartPass("NTP", CurrentSecond(ntpSyncedTime, ntpSyncedMicros, t), t)
       ELSE IF ~rtc.valid
       THEN SkipPass(IF sketch = "readme" THEN 2 * InvalidRtcDelay ELSE InvalidRtcDelay)
       ELSE IF sketch = "rtc_v10"
       THEN \E t \in {RtcTickNotZero(clk)} : StartPass("RTC", RtcSec(t), t)
       ELSE StartPass("RTC", RtcSec(clk), clk)
    /\ UNCHANGED <<isrVars, wall, wrap, ntpSyncedMicros, ntpSyncedTime, prevSecond,
                   lastSyncMillis, syncInterval, rtc, net, env, sysSet, tx,
                   bootNtpOk, resyncs>>

\* The second shown at reading m by the clock the pass took its time from.
RefSec(src, m) == IF src = "NTP" THEN TrueSec(m) ELSE RtcSec(m)

\* One iteration of the transmit loop: coercion, then mark(), zero() or one()
\* holds the carrier for one second.
SendSymbol ==
    /\ pc = "send"
    /\ idx < 60 + sh /\ idx < 62
    /\ sg' = [sg EXCEPT ![idx] = Coerce(sg[idx])]
    /\ sent' = [k \in (DOMAIN sent) \cup {idx} |->
                   IF k = idx THEN SendOne(sg, idx, sketch) ELSE sent[k]]
    /\ tx' = [n |-> tx.n + 1, slot |-> idx, at |-> clk,
              ref |-> RefSec(pass.src, clk), enc |-> pass.sec + (idx - se),
              src |-> pass.src, prevRef |-> tx.ref, prevSrc |-> tx.src]
    /\ clk' = clk + MicrosPerSec + env.symOverhead
    /\ idx' = idx + 1
    /\ pc' = IF idx + 1 < 60 + sh /\ idx + 1 < 62 THEN "send" ELSE "tail"
    /\ UNCHANGED <<sketch, charSigned, timeInfo, se, sh, isrVars, envVars,
                   anchorVars, lastSyncMillis, syncInterval, rtc, net, env,
                   sysSet, pass, bootNtpOk, resyncs>>

\* if (millis() - lastSyncMillis > syncInterval || lastSyncMillis == 0)
ResyncDue_always(sk, m) == TRUE

ResyncDue(sk, m) ==
    \/ Millis(m) - lastSyncMillis > syncInterval
    \/ sk = "ds3231" /\ lastSyncMillis = 0

\* resyncNTP() entered at reading m.  getLocalTime() succeeds when NTP
\* answers or the system clock has been set before.
resyncNTP(m) ==
    IF net = "none"
    THEN /\ ntpSyncedMicros' = 0
         /\ clk' = m
         /\ UNCHANGED <<ntpSyncedTime, rtc, lastSyncMillis, sysSet, resyncs>>
    ELSE IF net = "ntp" \/ sysSet
    THEN /\ ntpSyncedTime' = TrueSec(m)
         /\ ntpSyncedMicros' = m
         /\ sysSet' = TRUE
         /\ resyncs' = resyncs + 1
         /\ IF sketch = "ds3231"
            THEN \E t2 \in {NextMinute(m, TRUE)} :
                    /\ rtc' = [valid |-> TRUE, sec |-> TrueSec(m), clk |-> t2]
                    /\ lastSyncMillis' = Millis(t2)
                    /\ clk' = t2
            ELSE /\ rtc' = rtc
                 /\ lastSyncMillis' = Millis(m)
                 /\ clk' = m
    ELSE /\ ntpSyncedMicros' = 0
         /\ clk' = m + env.ntpTimeout
         /\ UNCHANGED <<ntpSyncedTime, rtc, lastSyncMillis, sysSet, resyncs>>

\* loop() after the transmit loop: delay(5), then the periodic resync check.
LoopTail ==
    /\ pc = "tail"
    /\ \E t1 \in {clk + (IF HasTailDelay(sketch) THEN TailDelay ELSE 0)} :
          IF HasResync(sketch) /\ ResyncDue(sketch, t1)
          THEN resyncNTP(t1)
          ELSE /\ clk' = t1
               /\ UNCHANGED <<ntpSyncedMicros, ntpSyncedTime, rtc, lastSyncMillis,
                              sysSet, resyncs>>
    /\ pc' = "loop"
    /\ UNCHANGED <<bufVars, isrVars, envVars, currentSecond, prevSecond, idx,
                   syncInterval, net, env, pass, tx, bootNtpOk>>

\* The network changes while the sketch runs (WiFi.status(), NTP reachable).
NetChange ==
    /\ pc \in {"tail", "loop"}
    /\ HasResync(sketch)
    /\ net' \in {"none", "wifi", "ntp"} \ {net}
    /\ UNCHANGED <<bufVars, isrVars, envVars, clk, anchorVars, pc, idx,
                   lastSyncMillis, syncInterval, rtc, env, sysSet, pass, tx,
                   bootNtpOk, resyncs>>

NextTime == Setup \/ LoopTop \/ SendSymbol \/ LoopTail \/ NetChange

SpecTime == InitTime /\ [][NextTime]_vars

(***************************************************************************)
(* The resync test in the arithmetic of the ESP32: unsigned long is 32     *)
(* bits wide and millis() wraps after 2^32 ms.  A 32-bit value is held as  *)
(* <<high, low>>, two 16-bit halves.                                       *)
(***************************************************************************)
ResyncDue32_sum(now, last, interval) ==
    LET lo == last[2] + (interval % 65536)
        hi == (last[1] + (interval \div 65536) + (lo \div 65536)) % 65536
    IN  now[1] > hi \/ (now[1] = hi /\ now[2] > lo % 65536)

\* millis() - lastSyncMillis > syncInterval, the subtraction modulo 2^32.
ResyncDue32(now, last, interval) ==
    LET lo     == now[2] - last[2]
        borrow == IF lo < 0 THEN 1 ELSE 0
        hi     == (now[1] - last[1] - borrow + 65536) % 65536
        dlo    == (lo + 65536) % 65536
    IN  \/ hi > (interval \div 65536)
        \/ hi = (interval \div 65536) /\ dlo > (interval % 65536)

\* A sketch with the periodic resync at its resync test: syncInterval of 1 to
\* 24 hours, lastSyncMillis anywhere in the range of the counter, and a time
\* really elapsed since then of less than 2^32 ms, among them one millisecond
\* either side of the interval and the time after which millis() reads 0.
InitMillis ==
    /\ sketch \in {"ds3231", "c3"}
    /\ charSigned = FALSE
    /\ wall = ZeroTm
    /\ timeBase = ZeroTm
    /\ sg = set_fix([k \in 0..61 |-> 0])
    /\ timeInfo = ZeroTm
    /\ se = 0
    /\ sh = 0
    /\ sent = [k \in {} |-> 0]
    /\ passes = 0
    /\ bits60 = bits_jjy
    /\ nowtm = ZeroTm
    /\ tssec = 0
    /\ ampmod = 0
    /\ oob = FALSE
    /\ rtcValid = TRUE
    /\ isBPC = FALSE
    /\ buzzup = 0
    /\ timerSemaphore = FALSE
    /\ ampc = 0
    /\ microsBase = 0
    /\ InitAnchorIdle
    /\ clk = 0
    /\ pc = "resync_test"
    /\ idx = 0
    /\ lastSyncMillis = 0
    /\ syncInterval \in {hr * MillisPerHour : hr \in 1..24}
    /\ rtc = NoRtc
    /\ net = "none"
    /\ env = NoEnv
    /\ sysSet = FALSE
    /\ pass = NoPass
    /\ tx = NoTx
    /\ bootNtpOk = FALSE
    /\ resyncs = 0
    /\ \E last \in {<<0, 1>>, <<0, 30000>>, <<32768, 0>>, <<64217, 40959>>,
                     <<65535, 65535>>} :
       \E e \in {<<0, 0>>, <<0, 1>>, <<32768, 0>>, <<65535, 65535>>,
                 <<(syncInterval - 1) \div 65536, (syncInterval - 1) % 65536>>,
                 <<syncInterval \div 65536, syncInterval % 65536>>,
                 <<(syncInterval + 1) \div 65536, (syncInterval + 1) % 65536>>,
                 IF last[2] = 0 THEN <<65536 - last[1], 0>>
                                ELSE <<65535 - last[1], 65536 - last[2]>>} :
          wrap = [millis |-> last, lastSyncMillis |-> last, elapsed |-> e,
                  due |-> FALSE]

\* loop() reaches the resync test after wrap.elapsed milliseconds: millis()
\* reads lastSyncMillis + elapsed modulo 2^32, and the test is evaluated.
MillisPoll ==
    /\ pc = "resync_test"
    /\ LET lo  == wrap.lastSyncMillis[2] + wrap.elapsed[2]
           hi  == (wrap.lastSyncMillis[1] + wrap.elapsed[1] + (lo \div 65536)) % 65536
           now == <<hi, lo % 65536>>
       IN  wrap' = [wrap EXCEPT !.millis = now,
                                !.due = ResyncDue32(now, wrap.lastSyncMillis,
                                                    syncInterval)]
    /\ pc' = "resync_tested"
    /\ UNCHANGED <<bufVars, isrVars, wall, passes, clk, anchorVars, idx,
                   lastSyncMillis, syncInterval, rtc, net, env, sysSet, pass, tx,
                   bootNtpOk, resyncs>>

SpecMillis == InitMillis /\ [][MillisPoll]_vars

(***************************************************************************)
(* The interrupt-driven JJY/BPC sketch from power-up: setup(), then loop() *)
(* either stepping the envelope or, with rtcValid false, idling.           *)
(***************************************************************************)
SecPerHour == 3600

\* localtime_r of timeBaseSec = 0 in a zone tz hours east of UTC:
\* 1 January 1970, a Thursday.
EpochTm(tz) ==
    [tm_year |-> 70, tm_mon |-> 0, tm_mday |-> 1, tm_hour |-> tz, tm_min |-> 0,
     tm_sec |-> 0, tm_wday |-> 4, tm_yday |-> 0]

\* What the RTC chip shows when setup() reads it: the last second of a
\* minute, late in 2024, early in 2025, at noon.
IsrRtcSecs == {59, 119, 179, 43259}

IsrEnvs ==
    {[NoEnv EXCEPT !.bootSec = b, !.tzHours = tz] : b \in {59, 119}, tz \in {0, 8, 9}}

InitIsr ==
    /\ sketch = "jjybpc"
    /\ charSigned = FALSE
    /\ wall = ZeroTm
    /\ timeBase = ZeroTm
    /\ InitBuffers
    /\ InitAnchorIdle
    /\ clk = 0
    /\ pc = "isr_setup"
    /\ idx = 0
    /\ lastSyncMillis = 0
    /\ syncInterval = 0
    /\ env \in IsrEnvs
    /\ net \in {"none", "wifi", "ntp"}
    /\ rtc \in {[valid |-> v, sec |-> n, clk |-> 0] : v \in BOOLEAN, n \in IsrRtcSecs}
    /\ sysSet = FALSE
    /\ pass = NoPass
    /\ tx = NoTx
    /\ bootNtpOk = FALSE
    /\ resyncs = 0

\* setup() of the interrupt sketch.  The first syncNTPtoRTC() runs before
\* Wi-Fi is started and fails; autoConnect succeeds iff a network exists;
\* only then are the zone, timeBaseSec / microsBase and the mode read; the
\* second syncNTPtoRTC() writes the RTC when NTP answers.
SetupIsr ==
    /\ pc = "isr_setup"
    /\ rtcValid' = rtc.valid
    /\ \E mode \in (IF net # "none" THEN BOOLEAN ELSE {isBPC}) :
          /\ isBPC' = mode
          /\ bits60' = IF mode THEN bits_bpc ELSE bits_jjy
    /\ timeBase' = IF net # "none"
                   THEN TmAt(rtc.sec + env.tzHours * SecPerHour)
                   ELSE EpochTm(env.tzHours)
    /\ IF net = "ntp"
       THEN /\ rtc' = [valid |-> TRUE, sec |-> env.bootSec, clk |-> clk]
            /\ bootNtpOk' = TRUE
            /\ sysSet' = TRUE
       ELSE UNCHANGED <<rtc, bootNtpOk, sysSet>>
    /\ microsBase' = IF net # "none" THEN clk ELSE microsBase
    /\ pc' = "isr_loop"
    /\ UNCHANGED <<bufVars, envVars, clk, anchorVars, nowtm, tssec, ampmod, oob,
                   buzzup, timerSemaphore, ampc,
                   idx, lastSyncMillis, syncInterval, net, env, pass, tx, resyncs>>

\* loop() with rtcValid false: "RTC FAIL" on the LCD, delay(1000), return.
IsrIdle ==
    /\ sketch = "jjybpc"
    /\ pc = "isr_loop"
    /\ ~rtcValid
    /\ clk < MaxSeconds * MicrosPerSec
    /\ clk' = clk + InvalidRtcDelay
    /\ UNCHANGED <<bufVars, isrVars, envVars, anchorVars, timeVars>>

NextIsr == SetupIsr \/ IsrTick \/ IsrIdle

SpecIsr == InitIsr /\ [][NextIsr]_vars

\* The interrupt-driven sketch after setup() in BPC mode (setstation(SN_BPC)),
\* its time base at second 59 of any sampled minute.
InitBpc ==
    /\ clk = 0
    /\ InitAnchorIdle
    /\ InitTimeIdle
    /\ sketch = "jjybpc"
    /\ charSigned = FALSE
    /\ wall = ZeroTm
    /\ timeBase \in TimeBaseSamples
    /\ sg = set_fix([k \in 0..61 |-> 0])
    /\ timeInfo = ZeroTm
    /\ se = 0
    /\ sh = 0
    /\ sent = [k \in {} |-> 0]
    /\ passes = 0
    /\ wrap = NoWrap
    /\ bits60 = bits_bpc
    /\ nowtm = ZeroTm
    /\ tssec = 0
    /\ ampmod = 0
    /\ oob = FALSE
    /\ rtcValid = TRUE
    /\ isBPC = TRUE
    /\ buzzup = 0
    /\ timerSemaphore = FALSE
    /\ ampc = 0
    /\ microsBase = 0

SpecBpc == InitBpc /\ [][IsrTick]_vars

(***************************************************************************)
(* The handoff between the timer interrupt and loop() of the interrupt     *)
(* sketch.  onTimer() runs on every timer alarm; every radiodiv-th run     *)
(* increments buzzup and gives the semaphore.  loop() polls the semaphore, *)
(* takes buzzup and counts one step.  The monotonic clock is followed in   *)
(* handoff periods.                                                        *)
(***************************************************************************)
AMPDIV == 10

\* Handoff periods followed after starttimer().
MaxHandoffs == 220

\* Handoffs the interrupt may signal before loop() polls again.
MaxPending == 2

\* Microseconds between two increments of buzzup.  timerBegin(0, tm0cycle,
\* true) divides the 80 MHz timer clock by tm0cycle, timerAlarmWrite(tm0, 1,
\* true) raises the alarm on every tick, and onTimer() signals on every
\* radiodiv-th alarm.
HandoffMicros(bpc) ==
    LET radiodiv == IF bpc THEN 137 ELSE 80
        tm0cycle == IF bpc THEN 80000 \div 137 ELSE 80000 \div 80
    IN  (tm0cycle * radiodiv) \div 80

\* esp_timer_get_time() when starttimer() returns.
TimerStart == 3000000

\* The state when setup() returns with Wi-Fi connected: the mode chosen, the
\* tables selected, timeBaseSec read from the RTC at second 59 of a minute and
\* microsBase taken a little less than a second before starttimer().
InitHandoff ==
    /\ sketch = "jjybpc"
    /\ charSigned = FALSE
    /\ wall = ZeroTm
    /\ timeBase \in {TmAt(59), TmAt(119)}
    /\ sg = set_fix([k \in 0..61 |-> 0])
    /\ timeInfo = ZeroTm
    /\ se = 0
    /\ sh = 0
    /\ sent = [k \in {} |-> 0]
    /\ passes = 0
    /\ wrap = NoWrap
    /\ isBPC \in BOOLEAN
    /\ bits60 = IF isBPC THEN bits_bpc ELSE bits_jjy
    /\ nowtm = ZeroTm
    /\ tssec = 0
    /\ ampmod = 0
    /\ oob = FALSE
    /\ rtcValid = TRUE
    /\ buzzup = 0
    /\ timerSemaphore = FALSE
    /\ ampc = 0
    /\ clk = TimerStart
    /\ microsBase \in {TimerStart - 950000, TimerStart - 880000}
    /\ InitAnchorIdle
    /\ pc = "isr_loop"
    /\ idx = 0
    /\ lastSyncMillis = 0
    /\ syncInterval = 0
    /\ rtc = [valid |-> TRUE, sec |-> 59, clk |-> 0]
    /\ net = "wifi"
    /\ env = NoEnv
    /\ sysSet = FALSE
    /\ pass = NoPass
    /\ tx = NoTx
    /\ bootNtpOk = FALSE
    /\ resyncs = 0

\* onTimer(), from one increment of buzzup to the next: radiodiv alarms, the
\* last of which signals the step.
onTimer ==
    /\ sketch = "jjybpc"
    /\ pc = "isr_loop"
    /\ clk < TimerStart + MaxHandoffs * 1000
    /\ buzzup < MaxPending
    /\ clk' = clk + HandoffMicros(isBPC)
    /\ buzzup' = buzzup + 1
    /\ timerSemaphore' = TRUE
    /\ UNCHANGED <<bits60, nowtm, timeBase, tssec, ampmod, oob, rtcValid, isBPC,
                   ampc, microsBase, bufVars, envVars, anchorVars, timeVars>>

\* One iteration of loop() with rtcValid true: the semaphore is polled,
\* buzzup is taken and cleared, one step is counted, and on the wrap of tssec
\* the time base advances if a second has elapsed since microsBase.
LoopPoll ==
    /\ sketch = "jjybpc"
    /\ pc = "isr_loop"
    /\ rtcValid
    /\ LET buzzup2 == IF timerSemaphore /\ buzzup > 0 THEN buzzup ELSE 0
           wrapA   == ampc + 1 >= AMPDIV
           wrapT   == wrapA /\ tssec + 1 >= 10
           elapsed == wrapT /\ clk - microsBase >= MicrosPerSec
           t       == NextSecondTm(timeBase)
           n       == [t EXCEPT !.tm_yday =
                          calculateDOY(t.tm_year + 1900, t.tm_mon, t.tm_mday)]
       IN  /\ timerSemaphore' = FALSE
           /\ buzzup' = IF timerSemaphore THEN 0 ELSE buzzup
           /\ IF buzzup2 > 0
              THEN /\ ampc' = IF wrapA THEN 0 ELSE ampc + 1
                   /\ tssec' = IF wrapT THEN 0
                               ELSE IF wrapA THEN tssec + 1 ELSE tssec
                   /\ IF elapsed
                      THEN /\ microsBase' = microsBase + MicrosPerSec
                           /\ timeBase' = t
                           /\ nowtm' = n
                           /\ bits60' = IF n.tm_sec = 0
                                        THEN makebitpattern(bits60, n)
                                        ELSE bits60
                      ELSE UNCHANGED <<microsBase, timeBase, nowtm, bits60>>
                   /\ ampchange(bits60', nowtm', tssec')
              ELSE UNCHANGED <<ampc, tssec, microsBase, timeBase, nowtm, bits60,
                               ampmod, oob>>
    /\ UNCHANGED <<rtcValid, isBPC, bufVars, envVars, clk, anchorVars, timeVars>>

SpecHandoff == InitHandoff /\ [][onTimer \/ LoopPoll]_vars

\* The interrupt-driven sketch in either mode, JJY or BPC, next to the sg[]
\* sketches, from every sampled time.
SpecModes == (Init \/ InitBpc) /\ [][Next]_vars

\* Every sketch from power-up: the sg[] sketches and the interrupt-driven one.
InitBoot == InitTime \/ InitIsr
NextBoot == NextTime \/ NextIsr
SpecBoot == InitBoot /\ [][NextBoot]_vars

(***************************************************************************)
(* The NTP reads of setup(), one getLocalTime() call per step; idx is the  *)
(* number of reads made so far.                                            *)
(***************************************************************************)
IsrAttempts == 5

\* The getLocalTime() calls setup() makes before it goes on.  RTC sketches:
\* for (i = 0; i < 3; i++), left on the first success, not entered without
\* Wi-Fi.  C3: while (!getLocalTime() && retries < 10), then one more read.
\* Interrupt sketch: syncNTPtoRTC() with for (i = 0; i < 5; i++), called
\* before Wi-Fi is up if the RTC is valid, and once more after autoConnect.
StartupReads ==
    IF sketch = "jjybpc"
    THEN (IF rtc.valid THEN IsrAttempts ELSE 0)
            + (IF net = "ntp" THEN 1 ELSE IsrAttempts)
    ELSE IF net = "none" THEN 0
    ELSE IF sketch = "c3" THEN (IF net = "ntp" THEN 2 ELSE C3Retries + 1)
    ELSE (IF net = "ntp" THEN 1 ELSE NtpAttempts)

StartupRead_stuck ==
    /\ pc \in {"setup", "isr_setup"}
    /\ idx < StartupReads
    /\ UNCHANGED vars

\* One getLocalTime() call of setup(); the time the calls take is added by
\* Setup.
StartupRead ==
    /\ pc \in {"setup", "isr_setup"}
    /\ idx < StartupReads
    /\ idx' = idx + 1
    /\ UNCHANGED <<bufVars, isrVars, envVars, clk, anchorVars, pc,
                   lastSyncMillis, syncInterval, rtc, net, env, sysSet, pass, tx,
                   bootNtpOk, resyncs>>

\* The attempts are over: the rest of setup() runs and loop() starts.
StartupDone ==
    /\ idx = StartupReads
    /\ Setup \/ SetupIsr

\* setup() is called once by the Arduino core and runs to its end.
SpecStartup ==
    /\ InitBoot
    /\ [][StartupRead \/ StartupDone]_vars
    /\ WF_vars(StartupRead)
    /\ WF_vars(StartupDone)

\* loop() is entered with no usable time: neither an anchor nor a valid RTC
\* (the C3 sketch has no RTC; the interrupt-driven sketch reads rtcValid).
NoUsableTime ==
    \/ /\ pc = "loop"
       /\ ~NtpMode(sketch, ntpSyncedMicros)
       /\ sketch = "c3" \/ ~rtc.valid
    \/ /\ pc = "isr_loop"
       /\ ~rtcValid

(***************************************************************************)
(* Reading a built buffer back: BCD digits, most significant bit first.    *)
(***************************************************************************)
DecMinute(s) ==
    10 * (4 * s[1] + 2 * s[2] + s[3]) + (8 * s[5] + 4 * s[6] + 2 * s[7] + s[8])

DecHour(s) ==
    10 * (2 * s[12] + s[13]) + (8 * s[15] + 4 * s[16] + 2 * s[17] + s[18])

DecDoy(s) ==
    100 * (2 * s[22] + s[23])
        + 10 * (8 * s[25] + 4 * s[26] + 2 * s[27] + s[28])
        + (8 * s[30] + 4 * s[31] + 2 * s[32] + s[33])

DecYear(s) ==
    10 * (8 * s[41] + 4 * s[42] + 2 * s[43] + s[44])
        + (8 * s[45] + 4 * s[46] + 2 * s[47] + s[48])

DecWday(s) == 4 * s[50] + 2 * s[51] + s[52]

\* An sg[] sketch has made a pass; the interrupt sketch has built bits60.
SgBuilt == sketch \in SgSketches /\ passes > 0
IsrBuilt == sketch = "jjybpc" /\ nowtm # ZeroTm

(***************************************************************************)
(* C1.  For every minute 0..59, hour 0..23, day-of-year 1..366,            *)
(* year-in-century 0..99 and weekday 0..6, reading the BCD slots of the    *)
(* built buffer back gives exactly the values that were passed to the      *)
(* encoders (set_* in the sg[] sketches, mb_jjy in the interrupt sketch).  *)
(***************************************************************************)
RoundTrip_C1 ==
    /\ SgBuilt =>
          LET doy == YdayUsed(timeInfo, sketch) + 1
              yy  == timeInfo.tm_year + 1900 - 2000
          IN  (/\ timeInfo.tm_min \in 0..59 /\ timeInfo.tm_hour \in 0..23
               /\ doy \in 1..366 /\ yy \in 0..99 /\ timeInfo.tm_wday \in 0..6)
              => /\ DecMinute(sg) = timeInfo.tm_min
                 /\ DecHour(sg) = timeInfo.tm_hour
                 /\ DecDoy(sg) = doy
                 /\ DecYear(sg) = yy
                 /\ DecWday(sg) = timeInfo.tm_wday
    /\ IsrBuilt =>
          LET yy == nowtm.tm_year - 100
          IN  (/\ nowtm.tm_min \in 0..59 /\ nowtm.tm_hour \in 0..23
               /\ nowtm.tm_yday \in 0..366 /\ yy \in 0..99 /\ nowtm.tm_wday \in 0..6)
              => /\ DecMinute(bits60) = nowtm.tm_min
                 /\ DecHour(bits60) = nowtm.tm_hour
                 /\ DecDoy(bits60) = nowtm.tm_yday
                 /\ DecYear(bits60) = yy
                 /\ DecWday(bits60) = nowtm.tm_wday

\* A pass has encoded day 366 of a leap year, at an hour past 19.
RoundTripSeen_C1 ==
    /\ SgBuilt
    /\ timeInfo.tm_yday = 365
    /\ DecDoy(sg) = 366
    /\ DecHour(sg) = timeInfo.tm_hour
    /\ timeInfo.tm_hour >= 10

(***************************************************************************)
(* C2.  After every JJY build slot 36 is the sum modulo 2 of the hour bits *)
(* (slots 12, 13, 15..18) and slot 37 the sum modulo 2 of the minute bits  *)
(* (slots 1, 2, 3, 5..8); the values read at the moment of transmission    *)
(* satisfy the same equations.                                             *)
(***************************************************************************)
HourBitSum(s) == s[12] + s[13] + s[15] + s[16] + s[17] + s[18]
MinBitSum(s) == s[1] + s[2] + s[3] + s[5] + s[6] + s[7] + s[8]

RawSent == [k \in DOMAIN sent |-> sent[k].raw]

Parity_C2 ==
    /\ sketch \in SgSketches =>
          /\ sg[36] = HourBitSum(sg) % 2
          /\ sg[37] = MinBitSum(sg) % 2
          /\ (1..37) \subseteq DOMAIN sent =>
                /\ sent[36].raw = HourBitSum(RawSent) % 2
                /\ sent[37].raw = MinBitSum(RawSent) % 2
    /\ sketch = "jjybpc" =>
          /\ bits60[36] = HourBitSum(bits60) % 2
          /\ bits60[37] = MinBitSum(bits60) % 2

\* A whole minute has been transmitted with both parity slots at 1.
ParitySeen_C2 ==
    /\ SgBuilt
    /\ (1..37) \subseteq DOMAIN sent
    /\ sent[36].raw = 1
    /\ sent[37].raw = 1
    /\ HourBitSum(sg) = 3

(***************************************************************************)
(* C6.  When the time being encoded has second = 60, the buffer from which *)
(* the symbols are transmitted has slots (53, 54) = (1, 0); with second =  *)
(* 61 it has (1, 1).                                                       *)
(***************************************************************************)
LeapFlagsSent_C6 ==
    SgBuilt =>
        /\ timeInfo.tm_sec = 60 => (sg[53] = 1 /\ sg[54] = 0)
        /\ timeInfo.tm_sec = 61 => (sg[53] = 1 /\ sg[54] = 1)

(***************************************************************************)
(* C7.  When the time being encoded has second in 0..59, slots (53, 54) of *)
(* the transmitted buffer are (0, 0), whatever builds were made before.    *)
(***************************************************************************)
NoLeapFlags_C7 ==
    (SgBuilt /\ timeInfo.tm_sec \in 0..59) =>
        /\ sg[53] = 0 /\ sg[54] = 0
        /\ \A k \in DOMAIN sent \cap {53, 54} : sent[k].raw = 0

(***************************************************************************)
(* C8.  A pass started with second = 60 transmits indices up to and        *)
(* including 60, with second = 61 up to 61, with second in 0..59 up to 59; *)
(* no index outside 0..61 of sg is touched.                                *)
(***************************************************************************)
LastIndex(sec) == IF sec = 60 THEN 60 ELSE IF sec = 61 THEN 61 ELSE 59

PassRange_C8 ==
    SgBuilt =>
        /\ DOMAIN sent = se..LastIndex(timeInfo.tm_sec)
        /\ DOMAIN sent \subseteq 0..61
        /\ DOMAIN sent \subseteq DOMAIN sg
        /\ LastIndex(timeInfo.tm_sec) \in DOMAIN sent

\* A pass started in second 61 has transmitted sg[61].
PassRangeSeen_C8 ==
    /\ SgBuilt
    /\ timeInfo.tm_sec = 61
    /\ 61 \in DOMAIN sent
    /\ sent[61].wave = zero

(***************************************************************************)
(* C9.  Whenever the transmit step reaches a slot whose value is outside   *)
(* the valid symbol set, the Zero waveform is emitted for it (and in the   *)
(* sg[] sketches the slot is overwritten with 0); the value is never used  *)
(* unchecked as an index into the pattern table, and no second is left     *)
(* without a waveform.                                                     *)
(***************************************************************************)
ValidSg == {-1, 0, 1, 255}

Coercion_C9 ==
    /\ sketch \in SgSketches =>
          \A k \in DOMAIN sent :
              /\ sent[k].wave # NoWave
              /\ sent[k].raw \notin ValidSg => (sent[k].wave = zero /\ sg[k] = 0)
    /\ sketch = "jjybpc" => ~oob

\* C5: for a fixed anchor and every timer reading at or after it, the computed
\* second is ntpSyncedTime plus the whole seconds elapsed (floor), and a
\* reading exactly 60,000,000 microseconds later gives the second plus 60,
\* whatever the time elapsed since the anchor.
AnchorFloor_C5 ==
    (pc = "off" /\ ntpSyncedMicros > 0) =>
        LET q == currentSecond - ntpSyncedTime
            e == clk - ntpSyncedMicros
        IN  /\ e >= 0
            /\ q * MicrosPerSec <= e
            /\ e < (q + 1) * MicrosPerSec
            /\ (prevSecond >= 0 => currentSecond = prevSecond + SecPerMin)

AnchorSeen_C5 ==
    /\ pc = "off"
    /\ ntpSyncedMicros > 0
    /\ prevSecond >= 0
    /\ clk - ntpSyncedMicros >= 20 * SecPerMin * MicrosPerSec
    /\ (clk - ntpSyncedMicros) % MicrosPerSec = MicrosPerSec - 1
    /\ currentSecond = ntpSyncedTime + 20 * SecPerMin

\* C3: every transmitted symbol, in NTP-anchored mode and in RTC mode, starts
\* no earlier than the second it stands for has begun on the clock in use
\* (it may start late).
TxNotEarly_C3 ==
    tx.n > 0 => tx.enc <= tx.ref

TxSeen_C3 ==
    /\ tx.n >= 5
    /\ tx.src = "NTP"
    /\ tx.prevSrc = "RTC"
    /\ tx.enc = tx.ref

\* C4: while a time source is in use, consecutive symbols start in
\* consecutive seconds and each is the symbol of the slot of its second; no
\* second is skipped between two passes, slot 0 included.
EverySecond_C4 ==
    (tx.n > 1 /\ tx.src = tx.prevSrc) =>
        /\ tx.ref = tx.prevRef + 1
        /\ tx.slot = tx.ref % SecPerMin

\* C10 (as stated): after a failed NTP synchronisation in setup() with a valid
\* RTC, every pass takes its time from the RTC and encodes it.
RtcFallbackAlways_C10 ==
    (HasRtc(sketch) /\ ~bootNtpOk /\ rtc.valid /\ passes > 0) =>
        /\ pass.src = "RTC"
        /\ pass.sec = pass.rtcSec
        /\ timeInfo = TmAt(pass.rtcSec)
        /\ DecMinute(sg) = TmAt(pass.rtcSec).tm_min
        /\ DecHour(sg) = TmAt(pass.rtcSec).tm_hour

\* C10 (amended): after a failed NTP synchronisation in setup() with a valid
\* RTC, every pass made before a periodic resync has succeeded takes its time
\* from the RTC and encodes it.
RtcFallback_C10 ==
    (HasRtc(sketch) /\ ~bootNtpOk /\ rtc.valid /\ passes > 0 /\ resyncs = 0) =>
        /\ pass.src = "RTC"
        /\ pass.sec = pass.rtcSec
        /\ timeInfo = TmAt(pass.rtcSec)
        /\ DecMinute(sg) = TmAt(pass.rtcSec).tm_min
        /\ DecHour(sg) = TmAt(pass.rtcSec).tm_hour

RtcFallbackSeen_C10 ==
    /\ sketch = "ds3231"
    /\ ~bootNtpOk
    /\ rtc.valid
    /\ resyncs = 0
    /\ passes >= 2
    /\ pc = "tail"
    /\ pass.src = "RTC"

\* C11: in the interrupt sketch, when Wi-Fi could not be connected in setup()
\* and the RTC holds a valid time, the time base of the encoder is the time
\* read from the RTC (plus the seconds counted since).
RtcTimeBase_C11 ==
    (sketch = "jjybpc" /\ pc = "isr_loop" /\ net = "none" /\ rtcValid) =>
        \E k \in 0..(MaxIsrSec + 1) :
            /\ timeBase.tm_year = TmAt(rtc.sec + k).tm_year
            /\ timeBase.tm_mon = TmAt(rtc.sec + k).tm_mon
            /\ timeBase.tm_mday = TmAt(rtc.sec + k).tm_mday
            /\ timeBase.tm_hour = TmAt(rtc.sec + k).tm_hour
            /\ timeBase.tm_min = TmAt(rtc.sec + k).tm_min
            /\ timeBase.tm_sec = TmAt(rtc.sec + k).tm_sec

\* C12: a pass of loop() that ends without a successful resync while an
\* anchor exists (no attempt, or a failed one) leaves the anchor as it was,
\* so the system stays Synced.
AnchorKept_C12 ==
    [][(pc = "tail" /\ pc' = "loop" /\ ntpSyncedMicros > 0 /\ resyncs' = resyncs)
          => (ntpSyncedMicros' = ntpSyncedMicros /\ ntpSyncedTime' = ntpSyncedTime)]_vars

NoTimeNoCarrier_C14 ==
    [][(NoUsableTime /\ net' = net) =>
          /\ sent' = sent
          /\ tx' = tx
          /\ passes' = passes
          /\ ampmod = 0 /\ ampmod' = 0
          /\ pc' = pc
          /\ clk' >= clk + MicrosPerSec]_vars

NoTimeSeen_C14 ==
    /\ NoUsableTime
    /\ clk >= 3 * MicrosPerSec
    /\ tx = NoTx
    /\ ampmod = 0
    /\ passes = 0

\* C15: after a startup in which every sync attempt failed and no fallback
\* time exists, an iteration of loop() that finds the time source reachable
\* and the resync interval elapsed makes progress towards a resync: it
\* attempts one, so that the anchor is set and transmission can resume.
ResyncFromIdle_C15 ==
    [][(/\ HasResync(sketch)
        /\ ~bootNtpOk
        /\ NoUsableTime
        /\ net = "ntp"
        /\ ResyncDue(sketch, clk)
        /\ net' = net) =>
          (resyncs' > resyncs \/ ntpSyncedMicros' > 0 \/ pc' # "loop")]_vars

\* C16: a periodic resync does not hold up transmission: the pass of loop()
\* in which resyncNTP() runs ends within the second, so the next symbol can
\* start on the next second boundary.
ResyncNoGap_C16 ==
    [][(pc = "tail" /\ resyncs' > resyncs) => clk' - clk < MicrosPerSec]_vars

\* C17: the day-of-year field of a built JJY buffer (slots 22..33) reads as
\* the 1-based day of the year of the date being encoded: 1 January is 001,
\* 31 December 365 or 366.
DoyOneBased_C17 ==
    /\ SgBuilt => DecDoy(sg) = timeInfo.tm_yday + 1
    /\ IsrBuilt => DecDoy(bits60) = timeBase.tm_yday + 1

\* The reserved slots of the JJY frame that always carry 0.
ReservedSlots == {4, 10, 11, 14, 20, 21, 24, 34, 35, 38, 40, 55, 56, 57, 58}

\* C18: every symbol sent for a marker slot (0, 9, 19, 29, 39, 49, 59) is a
\* Mark and every symbol sent for a reserved slot is a 0, and the buffers
\* themselves hold these values at all times: the field encoders of both
\* families leave marker and reserved slots alone.
FixedSlots_C18 ==
    /\ sketch \in SgSketches =>
          /\ \A k \in MarkSlots : sg[k] = M
          /\ \A k \in ReservedSlots : sg[k] = 0
          /\ \A k \in DOMAIN sent :
                /\ k \in MarkSlots => (sent[k].raw = M /\ sent[k].wave = mark)
                /\ k \in ReservedSlots => (sent[k].raw = 0 /\ sent[k].wave = zero)
    /\ (sketch = "jjybpc" /\ ~isBPC) =>
          /\ \A k \in MarkSlots : bits60[k] = SP_M
          /\ \A k \in ReservedSlots : bits60[k] = SP_0

\* A whole minute of 31 December of a leap year, 23 h, has been sent: every
\* field next to a marker or reserved slot carries bits.
FixedSlotsSeen_C18 ==
    /\ SgBuilt
    /\ (0..59) \subseteq DOMAIN sent
    /\ sent[59].wave = mark
    /\ sent[58].wave = zero
    /\ DecDoy(sg) = 366
    /\ sg[33] = 0 /\ sg[32] = 1
    /\ timeInfo.tm_hour >= 20

\* Carrier-on time in ms of the JJY symbol sym as mark(), zero(), one() send it.
JjyOnMs(sym) == IF sym = SP_M THEN mark[1] ELSE IF sym = SP_1 THEN one[1] ELSE zero[1]

\* C19: every JJY symbol lasts 1000 ms, carrier on then off: Mark 200/800,
\* Zero 800/200, One 500/500, both as mark(), zero(), one() send it and as the
\* rows of sp_jjy drive the carrier at 100 ms per step; every row of sp_bpc
\* has 10 steps, row k of 0..3 being k + 1 steps off and the rest on.
Envelopes_C19 ==
    /\ mark = <<200, 800>> /\ zero = <<800, 200>> /\ one = <<500, 500>>
    /\ \A k \in DOMAIN sent :
          /\ sent[k].wave[1] + sent[k].wave[2] = 1000
          /\ sent[k].val \in {-1, 255} => sent[k].wave = <<200, 800>>
          /\ sent[k].val = 0 => sent[k].wave = <<800, 200>>
          /\ sent[k].val = 1 => sent[k].wave = <<500, 500>>
    /\ DOMAIN sp_jjy = 0..29
    /\ \A sym \in {SP_0, SP_1, SP_M} : \A st \in 0..9 :
          sp_jjy[sym * 10 + st] = (IF st * 100 < JjyOnMs(sym) THEN 1 ELSE 0)
    /\ DOMAIN sp_bpc = 0..49
    /\ \A k \in 0..3 : \A st \in 0..9 :
          sp_bpc[k * 10 + st] = (IF st < k + 1 THEN 0 ELSE 1)
    /\ (sketch = "jjybpc" /\ ~isBPC /\ ~oob /\ (tssec # 0 \/ nowtm # ZeroTm)) =>
          ampmod = (IF tssec * 100 < JjyOnMs(bits60[nowtm.tm_sec]) THEN 1 ELSE 0)

\* The carrier has just gone off 200 ms into a marker second.
EnvelopesSeen_C19 ==
    /\ sketch = "jjybpc"
    /\ nowtm # ZeroTm
    /\ nowtm.tm_sec = 0
    /\ bits60[0] = SP_M
    /\ tssec = 2
    /\ ampmod = 0

\* C20: in BPC mode slots 0, 20 and 40 of bits60 hold Mark4 and, for every i
\* in 2..19, slots 20 + i and 40 + i hold what slot i holds: after mb_bpc the
\* three 20-second frames carry the same time fields.
BpcFrames_C20 ==
    (sketch = "jjybpc" /\ isBPC) =>
        /\ bits60[0] = SP_M4 /\ bits60[20] = SP_M4 /\ bits60[40] = SP_M4
        /\ \A i \in 2..19 : bits60[20 + i] = bits60[i] /\ bits60[40 + i] = bits60[i]

\* mb_bpc has run for an afternoon minute with a non-zero low digit.
BpcFramesSeen_C20 ==
    /\ sketch = "jjybpc"
    /\ isBPC
    /\ nowtm # ZeroTm
    /\ nowtm.tm_hour >= 12
    /\ bits60[10] >= 2
    /\ bits60[7] = 3
    /\ bits60[47] = 3
    /\ bits60[38] = bits60[18]

\* The number written in the len quaternary digits of b from slot pos on,
\* most significant digit first.
RECURSIVE QuadVal(_, _, _)
QuadVal(b, pos, len) ==
    IF len = 0 THEN 0 ELSE 4 * QuadVal(b, pos, len - 1) + b[pos + len - 1]

\* mb_bpc has run on the time now in nowtm.
BpcBuilt == sketch = "jjybpc" /\ isBPC /\ nowtm # ZeroTm

\* C21: after mb_bpc the quaternary digits of bits60 read back as hour mod 12
\* (slots 3-4), minute (5-7), weekday (8-9), day (11-13), month (14-15) and
\* year mod 100 (16-18), and the high bit of slot 10 is set exactly when the
\* hour is 12 or more.
BpcRoundTrip_C21 ==
    BpcBuilt =>
        /\ QuadVal(bits60, 3, 2) = nowtm.tm_hour % 12
        /\ QuadVal(bits60, 5, 3) = nowtm.tm_min
        /\ QuadVal(bits60, 8, 2) = nowtm.tm_wday
        /\ QuadVal(bits60, 11, 3) = nowtm.tm_mday
        /\ QuadVal(bits60, 14, 2) = nowtm.tm_mon + 1
        /\ QuadVal(bits60, 16, 3) = nowtm.tm_year % 100
        /\ (bits60[10] \div 2 = 1) <=> (nowtm.tm_hour >= 12)

\* Number of 1 bits in the quaternary digits of slots lo..hi of b.
OnesIn(b, lo, hi) ==
    Cardinality({kj \in (lo..hi) \X {1, 2} : (b[kj[1]] \div kj[2]) % 2 = 1})

\* C22: in BPC mode the low bit of slot 10 is the number of 1 bits in the
\* digits of slots 3..9 modulo 2, and slot 19 is the number of 1 bits in the
\* digits of slots 11..18 modulo 2.
BpcParity_C22 ==
    (sketch = "jjybpc" /\ isBPC) =>
        /\ bits60[10] % 2 = OnesIn(bits60, 3, 9) % 2
        /\ bits60[19] = OnesIn(bits60, 11, 18) % 2

\* A build in which both parities are odd and a digit 2 or 3 takes part.
BpcParitySeen_C22 ==
    /\ BpcBuilt
    /\ bits60[10] % 2 = 1
    /\ bits60[19] = 1
    /\ \E k \in 3..9 : bits60[k] >= 2
    /\ \E k \in 11..18 : bits60[k] >= 2

\* C23: the source tag on the display names the source of the time that is
\* transmitted in the same cycle: in the LCD sketches with sg[] the tag of a
\* pass is the source the pass took its time from; in the interrupt sketch,
\* whose tag says "NTP" once syncNTPtoRTC() has succeeded, the time counted
\* in timeBaseSec is then the NTP time (plus the seconds counted since).
SourceTag_C23 ==
    /\ (sketch \in {"lcd_rtc", "ds3231"} /\ pc \in {"send", "tail"}) =>
          pass.tag = pass.src
    /\ (sketch = "jjybpc" /\ pc = "isr_loop" /\ rtcValid /\ bootNtpOk) =>
          \E k \in 0..(MaxIsrSec + 1) :
              /\ timeBase.tm_mday = TmAt(env.bootSec + k).tm_mday
              /\ timeBase.tm_hour = TmAt(env.bootSec + k).tm_hour
              /\ timeBase.tm_min = TmAt(env.bootSec + k).tm_min
              /\ timeBase.tm_sec = TmAt(env.bootSec + k).tm_sec

\* C24: a build for a year past 2099 does not put a wrapped or truncated
\* year into slots 41..48: the field is left as it was at power-up (the year
\* is rejected) or holds the clamped year 99.
NoYearWrap_C24 ==
    /\ (SgBuilt /\ timeInfo.tm_year + 1900 > 2099) => DecYear(sg) \in {0, 99}
    /\ (IsrBuilt /\ ~isBPC /\ nowtm.tm_year + 1900 > 2099) => DecYear(bits60) \in {0, 99}

\* C25: no time of a year before 2020 is taken as live time: in the sketches
\* with an RTC, the time a pass encodes and transmits, whether it was read
\* from NTP or from the RTC, is of the year 2020 or later.
NoOldYear_C25 ==
    (SgBuilt /\ HasRtc(sketch)) => timeInfo.tm_year + 1900 >= 2020

\* C26: whenever an anchor is set, ntpSyncedMicros was sampled right after
\* the system clock ticked over (within the 1 ms of the polling delay(1)) and
\* ntpSyncedTime is the second that began at that tick.
AnchorOnTick_C26 ==
    ntpSyncedMicros > 0 =>
        /\ ntpSyncedTime = TrueSec(ntpSyncedMicros)
        /\ (ntpSyncedMicros + env.bootPhase) % MicrosPerSec < 1000

BufferIsCurrent_C28 ==
    /\ (sketch \in SgSketches /\ pc \in {"send", "tail"} /\ tx.n > 0
            /\ tx.at >= pass.clk) =>
          /\ DecMinute(sg) = TmAt(tx.ref).tm_min
          /\ DecHour(sg) = TmAt(tx.ref).tm_hour
    /\ (sketch = "jjybpc" /\ pc = "isr_loop" /\ rtcValid
            /\ (tssec # 0 \/ nowtm # ZeroTm)) =>
          IF isBPC THEN QuadVal(bits60, 5, 3) = timeBase.tm_min
          ELSE DecMinute(bits60) = timeBase.tm_min
                  /\ DecHour(bits60) = timeBase.tm_hour

\* C29: in NTP-anchored mode every symbol of a pass starts within the
\* alignment window after a second boundary of the anchor, however many
\* symbols have been sent before it.
SymbolAligned_C29 ==
    (pc \in {"send", "tail"} /\ tx.n > 0 /\ tx.src = "NTP" /\ tx.at >= pass.clk) =>
        (tx.at - ntpSyncedMicros) % MicrosPerSec < AlignWindow

\* C30: a resync attempt (one that succeeds, or one that fails and drops the
\* anchor) is started only when at least syncInterval ms have elapsed since
\* lastSyncMillis; and a pass that ends more than syncInterval ms after
\* lastSyncMillis makes the attempt (it succeeds when NTP answers).
ResyncInterval_C30 ==
    [][/\ (pc = "tail" /\ (resyncs' # resyncs
                              \/ (ntpSyncedMicros > 0 /\ ntpSyncedMicros' = 0))) =>
             Millis(clk + TailDelay) - lastSyncMillis >= syncInterval
       /\ (pc = "tail" /\ pc' = "loop" /\ HasResync(sketch) /\ net = "ntp"
              /\ Millis(clk) - lastSyncMillis > syncInterval) =>
             resyncs' = resyncs + 1]_vars

\* A pass has ended with a resync, and the next pass has been sent.
ResyncIntervalSeen_C30 ==
    /\ resyncs >= 1
    /\ sketch = "ds3231"
    /\ syncInterval = 0
    /\ pc = "tail"
    /\ lastSyncMillis > 0
    /\ passes >= 2

(***************************************************************************)
(* C31: under every interleaving of onTimer() and loop(), every step the   *)
(* interrupt signals is counted once by loop(): when loop() takes k        *)
(* pending signals (buzzup = k, cleared by the poll), its step count       *)
(* tssec * AMPDIV + ampc advances by k.                                    *)
(***************************************************************************)
HandoffCounted_C31 ==
    [][(buzzup > 0 /\ buzzup' = 0) =>
          tssec' * AMPDIV + ampc' = (tssec * AMPDIV + ampc + buzzup) % (10 * AMPDIV)]_vars

(***************************************************************************)
(* C32: in the interrupt-driven sketch the sub-step index tssec walks      *)
(* 0, 1, ..., 9 in order, once per second: it only ever moves to the next  *)
(* sub-step, and it returns to 0 exactly when the second counter           *)
(* timeBaseSec advances.                                                   *)
(***************************************************************************)
SubStepsPerSecond_C32 ==
    [][/\ tssec' \in {tssec, (tssec + 1) % 10}
       /\ (tssec = 9 /\ tssec' = 0) <=> (timeBase' # timeBase)]_vars

(***************************************************************************)
(* C33: with an anchor set, the alignment wait ends; when it has ended the *)
(* offset from the anchor's second grid is below 1000 microseconds; and no *)
(* poll of the wait steps over a window: a poll either stays in the same   *)
(* second of the grid or lands inside the window of the next one, so the   *)
(* wait ends at the first boundary after it was entered.                   *)
(***************************************************************************)
AlignEnds_C33 ==
    /\ (pc = "align") ~> (pc = "aligned")
    /\ [](pc = "aligned" =>
            (clk - ntpSyncedMicros) % MicrosPerSec < AlignWindow)
    /\ [][(pc = "align" /\ pc' = "align") =>
            \/ (clk' - ntpSyncedMicros) \div MicrosPerSec
                  = (clk - ntpSyncedMicros) \div MicrosPerSec
            \/ (clk' - ntpSyncedMicros) % MicrosPerSec < AlignWindow]_vars

\* The wait was entered outside the window, less than a second after the
\* anchor, and has ended inside the window of the next second.
AlignEndsSeen_C33 ==
    /\ pc = "aligned"
    /\ clk - ntpSyncedMicros >= MicrosPerSec
    /\ clk - ntpSyncedMicros < MicrosPerSec + AlignWindow
    /\ env.pollLag > 0

(***************************************************************************)
(* C34: after a successful NTP synchronisation, the time written to the    *)
(* RTC by SetDateTime is the wall-clock second of the instant of the       *)
(* write, also when the write follows the wait for the next whole minute.  *)
(* rtc.clk >= 0 tells a write made since power-up.                         *)
(***************************************************************************)
RtcWriteExact_C34 ==
    (pc # "off" /\ rtc.valid /\ rtc.clk >= 0 /\ (bootNtpOk \/ resyncs > 0)) =>
        rtc.sec = TrueSec(rtc.clk)

(***************************************************************************)
(* C35: in the interrupt sketch, when the NTP synchronisation of setup()   *)
(* has succeeded and written the RTC, the device transmits: loop() is past *)
(* its rtcValid gate, the only path on which it steps the envelope, also   *)
(* when the RTC reported an invalid time at boot.                          *)
(***************************************************************************)
TransmitsAfterNtp_C35 ==
    (sketch = "jjybpc" /\ pc = "isr_loop" /\ bootNtpOk /\ rtc.valid) => rtcValid

(***************************************************************************)
(* C36: in the interrupt sketch, in either mode, every slot of bits60      *)
(* holds a row index of the selected pattern table (0..2 for JJY, 0..4 for *)
(* BPC), tssec is in 0..9 and the second used as index is in 0..59, so     *)
(* that ampchange() never reads outside the table.                         *)
(***************************************************************************)
TableIndex_C36 ==
    sketch = "jjybpc" =>
        /\ \A k \in 0..59 : bits60[k] \in 0..(IF isBPC THEN SP_M4 ELSE SP_M)
        /\ tssec \in 0..9
        /\ nowtm.tm_sec \in 0..59
        /\ \A k \in 0..59 : (bits60[k] * 10 + tssec) \in DOMAIN secpattern
        /\ ~oob

\* BPC, the buffer built: the last entry of the table (row SP_M4, sub-step 9)
\* has been read while the buffer holds a digit 3.
TableIndexSeen_C36 ==
    /\ sketch = "jjybpc"
    /\ isBPC
    /\ BpcBuilt
    /\ tssec = 9
    /\ bits60[nowtm.tm_sec] = SP_M4
    /\ \E k \in 0..59 : bits60[k] = SP_3

(***************************************************************************)
(* C37: the resync test millis() - lastSyncMillis > syncInterval, computed *)
(* modulo 2^32, is true exactly when more than syncInterval milliseconds   *)
(* have really elapsed since lastSyncMillis, for every syncInterval from 1 *)
(* to 24 hours and every elapsed time below 2^32 ms, also when millis()    *)
(* has wrapped around in between.                                          *)
(***************************************************************************)
MillisWrap_C37 ==
    pc = "resync_tested" =>
        (wrap.due <=>
            \/ wrap.elapsed[1] > (syncInterval \div 65536)
            \/ /\ wrap.elapsed[1] = (syncInterval \div 65536)
               /\ wrap.elapsed[2] > (syncInterval % 65536))

\* The counter has wrapped since lastSyncMillis (millis() reads less than
\* lastSyncMillis), less than 2^31 ms have elapsed, and the test is true.
MillisWrapSeen_C37 ==
    /\ pc = "resync_tested"
    /\ wrap.due
    /\ wrap.millis[1] < wrap.lastSyncMillis[1]
    /\ wrap.elapsed[1] < 32768
====
